---------------------------- MODULE Spec2Model ----------------------------
(***************************************************************************)
(* Model of the javanevisan web backend (src/server.js and its variant     *)
(* src/unnamed/part_000, which adds the optional mail notification).       *)
(*                                                                         *)
(* The server is a single Node process.  Every middleware and handler of   *)
(* the two files is synchronous (better-sqlite3 and fs.*Sync), so one      *)
(* request's pass through the middleware chain and its handler is one      *)
(* atomic step.  Each action below is one route: the visit tracking        *)
(* middleware, express.static, requireAuth and the handler, in the order   *)
(* the source registers them.                                             *)
(*                                                                         *)
(* JavaScript values of request bodies are tagged records:                 *)
(*   [t |-> "undefined"], [t |-> "string", v |-> "..."],                  *)
(*   [t |-> "array", v |-> <<"...", ...>>].                                *)
(* Not modelled: the columns ts / created_at (database defaults read only  *)
(* by the date aggregates of the dashboard and of /api/stats), the ip and  *)
(* ua columns of visits (copied from request headers, read by no handler), *)
(* helmet, morgan and the SMTP transport (no effect on the state below).   *)
(***************************************************************************)
EXTENDS Integers, Sequences, FiniteSets, TLC

VARIABLES
    admins,       \* table admins: set of [username, password]
    sessions,     \* session store: client -> value of req.session.user
    visits,       \* table visits: sequence of rows, in insertion order
    submissions,  \* table submissions: sequence of rows, in insertion order
    files,        \* public/: file name -> [exists, text]
    last,         \* the request handled last and the response it was sent
    nextRid,      \* number of /api/submit requests received so far
    inflight,     \* /api/submit requests received and not yet handled
    outbox        \* responses written to the sockets of /api/submit requests

vars == <<admins, sessions, visits, submissions, files, last,
          nextRid, inflight, outbox>>

conc == <<nextRid, inflight, outbox>>

-----------------------------------------------------------------------------
(* Bounds of the model *)

MaxVisits == 2

MaxSubmissions == 2

MaxServices == 3

-----------------------------------------------------------------------------
(* Program constants and input alphabets *)

ADMIN_USERNAME == "admin"

ADMIN_PASSWORD == "erfan9028@"

Clients == {"c1", "c2"}

\* req.session.user of a session that never logged in
NoUser == "undefined"

Undefined == [t |-> "undefined"]

Str(s) == [t |-> "string", v |-> s]

Arr(a) == [t |-> "array", v |-> a]

\* username / password pairs posted to /admin/login
Credentials ==
    { [username |-> Str(ADMIN_USERNAME), password |-> Str(ADMIN_PASSWORD)],
      [username |-> Str(ADMIN_USERNAME), password |-> Str("erfan9028")],
      [username |-> Str("root"),         password |-> Str(ADMIN_PASSWORD)] }

\* texts posted to /admin/editor (the content field is always a string here;
\* a body without it makes writeFileSync throw)
Contents == {"<h1>Hi</h1>", "<p>v2</p>"}

IndexHtml == "<html>index</html>"

\* paths requested with GET that are outside /admin and /api
PublicPaths == {"/", "/landing.html"}

\* paths under the admin / api prefixes that no route matches
UnroutedPaths == {"/administrator", "/api/none"}

\* values read from the clock (milliseconds)
Times == {1699999999, 1700000000}


\* bodies posted to /api/submit
SubmitBodies ==
    { [name |-> Undefined, phone |-> Undefined, email |-> Undefined,
       message |-> Undefined, services |-> Undefined],
      [name |-> Str("Sara"), phone |-> Str("0912"), email |-> Str(""),
       message |-> Str("hello"), services |-> Str("Web")],
      [name |-> Str("Omid"), phone |-> Undefined, email |-> Str("o@x.ir"),
       message |-> Undefined, services |-> Arr(<<"Web", "SEO">>)] }

\* names that may appear in a services field
ServiceNames == {"", "Web", "SEO"}

\* sequences over S of length at most n
RECURSIVE SeqsUpTo(_, _)
SeqsUpTo(S, n) ==
    IF n = 0 THEN {<<>>}
    ELSE LET shorter == SeqsUpTo(S, n - 1)
         IN  shorter \cup {Append(q, x) : q \in shorter, x \in S}

\* values of the services field of a body
ServicesInputs ==
    {Undefined} \cup {Str(s) : s \in ServiceNames}
                \cup {Arr(a) : a \in SeqsUpTo(ServiceNames, MaxServices)}

-----------------------------------------------------------------------------
(* Pure helpers *)

\* String.prototype.startsWith
StartsWith(s, prefix) ==
    Len(s) >= Len(prefix) /\ SubSeq(s, 1, Len(prefix)) = prefix

\* String.prototype.slice(-n)
SliceLast(s, n) ==
    IF Len(s) <= n THEN s ELSE SubSeq(s, Len(s) - n + 1, Len(s))

\* Array.prototype.join
RECURSIVE Join(_, _)
Join(a, sep) ==
    IF a = <<>> THEN ""
    ELSE IF Len(a) = 1 THEN a[1]
    ELSE a[1] \o sep \o Join(Tail(a), sep)

\* JavaScript falsiness of a body value
Falsy(v) == v.t = "undefined" \/ (v.t = "string" /\ v.v = "")

\* the expression  v || ''  on a text field
OrEmpty(v) == IF Falsy(v) THEN "" ELSE v.v

\* variant: the separator without its space
JoinServices_NoSpace(list) == Join(list, ",")

\* services.join(', ')
JoinServices(list) == Join(list, ", ")

\* servicesCsv of the submit handler
ServicesCsv(services) ==
    LET s0 == IF Falsy(services) THEN Arr(<<>>) ELSE services
        s1 == IF s0.t = "string" THEN Arr(<<s0.v>>) ELSE s0
    IN  JoinServices(s1.v)

\* 'JN' + Date.now().toString().slice(-6)
CustomerNumber(t) == "JN" \o SliceLast(ToString(t), 6)

\* new Date().toLocaleString('fa-IR'): a display string with second resolution
LocaleString(t) == "fa-IR " \o ToString(t \div 1000)

\* variant: only the /admin prefix is skipped
SkipsTracking_AdminOnly(path) == StartsWith(path, "/admin")

\* the visit tracking middleware skips these paths
SkipsTracking(path) == StartsWith(path, "/admin") \/ StartsWith(path, "/api")

\* AUTOINCREMENT: one more than the largest id the table ever held
NextId(table) ==
    IF table = <<>> THEN 1
    ELSE 1 + CHOOSE m \in {table[i].id : i \in 1..Len(table)} :
                 \A i \in 1..Len(table) : table[i].id <= m

\* the file express.static looks up for a path
FileOf(path) == IF path = "/" THEN "index.html" ELSE SubSeq(path, 2, Len(path))

StaticHit(path) == FileOf(path) \in DOMAIN files /\ files[FileOf(path)].exists

\* rows in descending order of id (ORDER BY id DESC)
RECURSIVE Reverse(_)
Reverse(q) == IF q = <<>> THEN <<>> ELSE Append(Reverse(Tail(q)), Head(q))

Limit(q, n) == IF Len(q) <= n THEN q ELSE SubSeq(q, 1, n)

-----------------------------------------------------------------------------
(* Responses *)

Redirect(to) == [status |-> 302, type |-> "redirect", what |-> to, data |-> <<>>]

Render(status, view, data) ==
    [status |-> status, type |-> "render", what |-> view, data |-> data]

Json(data) == [status |-> 200, type |-> "json", what |-> "", data |-> data]

SendFile(name) ==
    [status |-> 200, type |-> "file", what |-> name, data |-> files[name].text]

NotFound == [status |-> 404, type |-> "error", what |-> "", data |-> <<>>]

ServerError == [status |-> 500, type |-> "error", what |-> "", data |-> <<>>]

Request(method, path, client, body) ==
    [method |-> method, path |-> path, client |-> client, body |-> body]

NoBody == <<>>

NoRequest == Request("", "", "", NoBody)

NoResponse == [status |-> 0, type |-> "none", what |-> "", data |-> <<>>]

\* what is recorded of a handled request: the request, the response written,
\* the route handler whose body ran ("none" when no handler ran), and
\* whether the visit insert threw
Handled(req, res, ran, insertThrew) ==
    [req |-> req, res |-> res, ran |-> ran, insertThrew |-> insertThrew]

-----------------------------------------------------------------------------
(* Initial state: a fresh data/app.db after the tables are created and the *)
(* admin row is seeded; public/ holds index.html and may hold landing.html *)

InitialLanding == { [exists |-> FALSE, text |-> ""] }

Init ==
    /\ admins = {[username |-> ADMIN_USERNAME, password |-> ADMIN_PASSWORD]}
    /\ sessions = [c \in Clients |-> NoUser]
    /\ visits = <<>>
    /\ submissions = <<>>
    /\ \E l \in InitialLanding :
          files = [f \in {"index.html", "landing.html"} |->
                     IF f = "index.html"
                     THEN [exists |-> TRUE, text |-> IndexHtml] ELSE l]
    /\ last = Handled(NoRequest, NoResponse, "none", FALSE)
    /\ nextRid = 0
    /\ inflight = {}
    /\ outbox = {}

-----------------------------------------------------------------------------
(* Building blocks of the handlers *)

\* variant: INSERT OR REPLACE onto the newest row
InsertRow_OrReplace(table, row) ==
    IF table = <<>> THEN <<row>>
    ELSE [table EXCEPT ![Len(table)] = [row EXCEPT !.id = table[Len(table)].id]]

\* INSERT INTO <table> ... : the row is appended, existing rows are untouched
InsertRow(table, row) == Append(table, row)

VisitRow(path) == [id |-> NextId(visits), path |-> path]

\* the visits table after the tracking middleware saw a request for path
Tracked(path) ==
    IF SkipsTracking(path) THEN visits ELSE InsertRow(visits, VisitRow(path))

\* variant: a gate that lets every session through
RequireAuth_Always(c) == TRUE

\* requireAuth lets the request through
RequireAuth(c) == sessions[c] = ADMIN_USERNAME

\* variant: the password is not compared
CredentialsMatch_UsernameOnly(cred) ==
    \E row \in admins : row.username = cred.username.v

\* row && row.password === password, row looked up by username
CredentialsMatch(cred) ==
    /\ cred.username.t = "string"
    /\ cred.password.t = "string"
    /\ \E row \in admins :
          row.username = cred.username.v /\ row.password = cred.password.v

\* variant: a failed login clears the session
SessionsAfterLogin_Reset(c, cred) ==
    [sessions EXCEPT ![c] = IF CredentialsMatch(cred) THEN ADMIN_USERNAME ELSE NoUser]

\* the session store after POST /admin/login by client c
SessionsAfterLogin(c, cred) ==
    IF CredentialsMatch(cred) THEN [sessions EXCEPT ![c] = ADMIN_USERNAME]
    ELSE sessions

\* variant: logout redirects without destroying the session
SessionsAfterLogout_Kept(c) == sessions

\* req.session.destroy
SessionsAfterLogout(c) == [sessions EXCEPT ![c] = NoUser]

\* variant: the editor writes public/index.html
FilesAfterEdit_Index(content) ==
    [files EXCEPT !["index.html"] = [exists |-> TRUE, text |-> content]]

\* fs.writeFileSync(public/landing.html, content)
FilesAfterEdit(content) ==
    [files EXCEPT !["landing.html"] = [exists |-> TRUE, text |-> content]]

\* the editor's read of public/landing.html; a failed read leaves ''
EditorContent ==
    IF files["landing.html"].exists THEN files["landing.html"].text ELSE ""

\* express.static, then the router, for a GET outside /admin and /api
PublicResponse(path) ==
    IF StaticHit(path) THEN SendFile(FileOf(path))
    ELSE IF path = "/" THEN
        (IF files["index.html"].exists THEN SendFile("index.html") ELSE NotFound)
    ELSE NotFound

SubmissionRow(body, t1, t2) ==
    [id |-> NextId(submissions),
     name |-> OrEmpty(body.name),
     phone |-> OrEmpty(body.phone),
     email |-> OrEmpty(body.email),
     services |-> ServicesCsv(body.services),
     message |-> OrEmpty(body.message),
     customer_number |-> CustomerNumber(t1),
     submission_date |-> LocaleString(t2)]

\* variant: the response derives customerNumber from a later clock read
SubmitJson_Reread(t1, t2) ==
    [ok |-> TRUE, customerNumber |-> CustomerNumber(t2),
     submissionDate |-> LocaleString(t2)]

\* { ok: true, customerNumber, submissionDate }
SubmitJson(t1, t2) ==
    [ok |-> TRUE, customerNumber |-> CustomerNumber(t1),
     submissionDate |-> LocaleString(t2)]

Denied == Redirect("/admin/login")

-----------------------------------------------------------------------------
(* Routes.  Every action is one request: tracking middleware, static,      *)
(* requireAuth where the route names it, and the handler.                  *)

\* GET of a path outside /admin and /api: one visit row, then static / GET /
ServePublic(path) ==
    /\ ~SkipsTracking(path)
    /\ Len(visits) < MaxVisits
    /\ visits' = Tracked(path)
    /\ last' = Handled(Request("GET", path, "anyone", NoBody),
                       PublicResponse(path),
                       IF ~StaticHit(path) /\ path = "/" THEN "GET /" ELSE "none",
                       FALSE)
    /\ UNCHANGED <<admins, sessions, submissions, files, conc>>

\* the same request when INSERT INTO visits throws: the exception leaves the
\* middleware before next() is called, and Express answers 500
VisitInsertThrows(path) ==
    /\ ~SkipsTracking(path)
    /\ visits' = visits
    /\ last' = Handled(Request("GET", path, "anyone", NoBody), ServerError, "none", TRUE)
    /\ UNCHANGED <<admins, sessions, submissions, files, conc>>

\* GET of a path under the /admin or /api prefix that no route matches
GetUnrouted(path) ==
    /\ visits' = Tracked(path)
    /\ last' = Handled(Request("GET", path, "anyone", NoBody), NotFound, "none", FALSE)
    /\ UNCHANGED <<admins, sessions, submissions, files, conc>>

GetLogin(c) ==
    /\ visits' = Tracked("/admin/login")
    /\ last' = Handled(Request("GET", "/admin/login", c, NoBody),
                       Render(200, "login", "no error"), "GET /admin/login", FALSE)
    /\ UNCHANGED <<admins, sessions, submissions, files, conc>>

PostLogin(c, cred) ==
    /\ visits' = Tracked("/admin/login")
    /\ sessions' = SessionsAfterLogin(c, cred)
    /\ last' = Handled(Request("POST", "/admin/login", c, cred),
                       IF CredentialsMatch(cred) THEN Redirect("/admin")
                       ELSE Render(401, "login", "bad credentials"),
                       "POST /admin/login", FALSE)
    /\ UNCHANGED <<admins, submissions, files, conc>>

PostLogout(c) ==
    /\ visits' = Tracked("/admin/logout")
    /\ IF RequireAuth(c)
       THEN /\ sessions' = SessionsAfterLogout(c)
            /\ last' = Handled(Request("POST", "/admin/logout", c, NoBody),
                               Redirect("/admin/login"), "POST /admin/logout", FALSE)
       ELSE /\ sessions' = sessions
            /\ last' = Handled(Request("POST", "/admin/logout", c, NoBody),
                               Denied, "none", FALSE)
    /\ UNCHANGED <<admins, submissions, files, conc>>

\* what a gated read-only route records: its own response behind requireAuth
GatedRead(c, path, res) ==
    IF RequireAuth(c)
    THEN Handled(Request("GET", path, c, NoBody), res, "GET " \o path, FALSE)
    ELSE Handled(Request("GET", path, c, NoBody), Denied, "none", FALSE)

GetAdmin(c) ==
    /\ visits' = Tracked("/admin")
    /\ last' = GatedRead(c, "/admin",
                  Render(200, "dashboard",
                         [totalVisits |-> Len(visits),
                          totalSubmissions |-> Len(submissions),
                          last10 |-> Limit(Reverse(submissions), 10)]))
    /\ UNCHANGED <<admins, sessions, submissions, files, conc>>

GetSubmissions(c) ==
    /\ visits' = Tracked("/admin/submissions")
    /\ last' = GatedRead(c, "/admin/submissions",
                  Render(200, "submissions", Reverse(submissions)))
    /\ UNCHANGED <<admins, sessions, submissions, files, conc>>

GetVisits(c) ==
    /\ visits' = Tracked("/admin/visits")
    /\ last' = GatedRead(c, "/admin/visits",
                  Render(200, "visits", Limit(Reverse(visits), 1000)))
    /\ UNCHANGED <<admins, sessions, submissions, files, conc>>

GetEditor(c) ==
    /\ visits' = Tracked("/admin/editor")
    /\ last' = GatedRead(c, "/admin/editor", Render(200, "editor", EditorContent))
    /\ UNCHANGED <<admins, sessions, submissions, files, conc>>

GetStats(c) ==
    /\ visits' = Tracked("/api/stats")
    /\ last' = GatedRead(c, "/api/stats",
                  Json([total |-> Len(visits),
                        byPath |-> [p \in {visits[i].path : i \in 1..Len(visits)} |->
                                      Cardinality({i \in 1..Len(visits) :
                                                     visits[i].path = p})]]))
    /\ UNCHANGED <<admins, sessions, submissions, files, conc>>

PostEditor(c, content) ==
    /\ visits' = Tracked("/admin/editor")
    /\ IF RequireAuth(c)
       THEN /\ files' = FilesAfterEdit(content)
            /\ last' = Handled(Request("POST", "/admin/editor", c, content),
                               Redirect("/admin/editor"), "POST /admin/editor", FALSE)
       ELSE /\ files' = files
            /\ last' = Handled(Request("POST", "/admin/editor", c, content),
                               Denied, "none", FALSE)
    /\ UNCHANGED <<admins, sessions, submissions, conc>>

\* POST /api/submit received and handled.  t1 is the clock read by Date.now(),
\* t2 the clock read by new Date().  The mail notification of the variant
\* with nodemailer is sent after the insert and changes no state.
PostSubmit(body, t1, t2) ==
    /\ Len(submissions) < MaxSubmissions
    /\ visits' = Tracked("/api/submit")
    /\ submissions' = InsertRow(submissions, SubmissionRow(body, t1, t2))
    /\ last' = Handled(Request("POST", "/api/submit", "anyone", body),
                       Json(SubmitJson(t1, t2)), "POST /api/submit", FALSE)
    /\ UNCHANGED <<admins, sessions, files, conc>>

\* the session cookie of c runs out (maxAge) or the store purges the session
SessionExpires(c) ==
    /\ sessions[c] # NoUser
    /\ sessions' = [sessions EXCEPT ![c] = NoUser]
    /\ last' = Handled(Request("EXPIRE", "", c, NoBody), NoResponse, "none", FALSE)
    /\ UNCHANGED <<admins, visits, submissions, files, conc>>

ClockReads == {<<t1, t2>> \in Times \X Times : t1 <= t2}

\* the submissions of the serial specification: a body without fields with
\* two equal clock reads, and a body with a list of services whose two
\* clock reads are apart
SerialSubmits ==
    { x \in SubmitBodies \X ClockReads :
        \/ x[1].services.t = "undefined" /\ x[2] = <<1699999999, 1699999999>>
        \/ x[1].services.t = "array"     /\ x[2] = <<1699999999, 1700000000>> }

Next ==
    \/ \E path \in PublicPaths : ServePublic(path)
    \/ \E path \in UnroutedPaths : GetUnrouted(path)
    \/ \E c \in Clients : GetLogin(c)
    \/ \E c \in Clients, cred \in Credentials : PostLogin(c, cred)
    \/ \E c \in Clients : PostLogout(c)
    \/ \E c \in Clients : GetAdmin(c)
    \/ \E c \in Clients : GetSubmissions(c)
    \/ \E c \in Clients : GetVisits(c)
    \/ \E c \in Clients : GetEditor(c)
    \/ \E c \in Clients : GetStats(c)
    \/ \E c \in Clients, content \in Contents : PostEditor(c, content)
    \/ \E x \in SerialSubmits : PostSubmit(x[1], x[2][1], x[2][2])
    \/ \E c \in Clients : SessionExpires(c)

Spec == Init /\ [][Next]_vars

-----------------------------------------------------------------------------
(* The same server when the INSERT INTO visits may throw (disk full,       *)
(* database locked or read-only)                                           *)

NextFault ==
    \/ Next
    \/ \E path \in PublicPaths : VisitInsertThrows(path)

SpecFault == Init /\ [][NextFault]_vars

-----------------------------------------------------------------------------
(* Concurrent POST /api/submit requests: requests are received in one      *)
(* order and their handlers run in any order, each handler to completion   *)
(* (the handler has no await and no callback before res.json).             *)

ReceiveSubmit(body) ==
    /\ nextRid < MaxSubmissions
    /\ nextRid' = nextRid + 1
    /\ inflight' = inflight \cup {[rid |-> nextRid + 1, body |-> body]}
    /\ UNCHANGED <<admins, sessions, visits, submissions, files, last, outbox>>

\* rowid is the lastInsertRowid that .run() returns for the handler's insert
HandleSubmit(r, t1, t2) ==
    /\ r \in inflight
    /\ Len(submissions) < MaxSubmissions
    /\ visits' = Tracked("/api/submit")
    /\ submissions' = InsertRow(submissions, SubmissionRow(r.body, t1, t2))
    /\ last' = Handled(Request("POST", "/api/submit", "anyone", r.body),
                       Json(SubmitJson(t1, t2)), "POST /api/submit", FALSE)
    /\ inflight' = inflight \ {r}
    /\ outbox' = outbox \cup
                   {[rid |-> r.rid, body |-> r.body, res |-> Json(SubmitJson(t1, t2)),
                     rowid |-> submissions'[Len(submissions')].id]}
    /\ UNCHANGED <<admins, sessions, files, nextRid>>

\* the requests that can be in flight
SubmitRequests == [rid : 1..MaxSubmissions, body : SubmitBodies]

NextSubmit ==
    \/ \E body \in SubmitBodies : ReceiveSubmit(body)
    \/ \E r \in SubmitRequests, t \in ClockReads : HandleSubmit(r, t[1], t[2])

SpecSubmit == Init /\ [][NextSubmit]_vars

-----------------------------------------------------------------------------
(* The submit handler applied to one received request whose services field *)
(* ranges over ServicesInputs                                              *)

JoinRequests ==
    { [rid |-> 1,
       body |-> [name |-> Str("Sara"), phone |-> Undefined, email |-> Undefined,
                 message |-> Undefined, services |-> s]] : s \in ServicesInputs }

InitJoin ==
    /\ admins = {[username |-> ADMIN_USERNAME, password |-> ADMIN_PASSWORD]}
    /\ sessions = [c \in Clients |-> NoUser]
    /\ visits = <<>>
    /\ submissions = <<>>
    /\ files = [f \in {"index.html", "landing.html"} |->
                  IF f = "index.html" THEN [exists |-> TRUE, text |-> IndexHtml]
                  ELSE [exists |-> FALSE, text |-> ""]]
    /\ last = Handled(NoRequest, NoResponse, "none", FALSE)
    /\ nextRid = 1
    /\ \E r \in JoinRequests : inflight = {r}
    /\ outbox = {}

NextJoin == \E r \in JoinRequests, t \in ClockReads : HandleSubmit(r, t[1], t[2])

SpecJoin == InitJoin /\ [][NextJoin]_vars

-----------------------------------------------------------------------------
(* Vocabulary of the properties *)

\* the routes registered with requireAuth
GatedRoutes ==
    { <<"GET", "/admin">>, <<"GET", "/admin/submissions">>,
      <<"GET", "/admin/visits">>, <<"GET", "/admin/editor">>,
      <<"POST", "/admin/editor">>, <<"POST", "/admin/logout">>,
      <<"GET", "/api/stats">> }

\* the step handles a request (and is not the expiry of a session)
IsRequest(h) == h.req.method \in {"GET", "POST"}

IsRoute(h, method, path) == h.req.method = method /\ h.req.path = path

ToLogin(res) == res.type = "redirect" /\ res.what = "/admin/login"

Served(res, view) == res.status = 200 /\ res.type = "render" /\ res.what = view

GoodCredentials ==
    [username |-> Str("admin"), password |-> Str("erfan9028@")]

-----------------------------------------------------------------------------
(* C1: a request to a gated route runs its handler only if the requesting  *)
(* session's user marker is the admin username; any other session is       *)
(* redirected to /admin/login, no handler runs, the landing file is not    *)
(* overwritten and no session is destroyed.                                *)
C1_GateGuardsEveryAdminRoute ==
    [][ \A c \in Clients :
          ( /\ <<last'.req.method, last'.req.path>> \in GatedRoutes
            /\ last'.req.client = c
            /\ sessions[c] # "admin" )
          => ( /\ ToLogin(last'.res)
               /\ last'.ran = "none"
               /\ files' = files
               /\ sessions' = sessions
               /\ submissions' = submissions ) ]_vars

C1_Witness ==
    /\ IsRoute(last, "POST", "/admin/editor")
    /\ last.req.client = "c2"
    /\ sessions["c2"] # "admin"
    /\ sessions["c1"] = "admin"
    /\ ToLogin(last.res)

(* C2: from an Anonymous session, POST /admin/login with the stored        *)
(* username and exactly the stored password makes the session              *)
(* Authenticated and GET /admin on it is then served; with a wrong         *)
(* password the answer is 401, the session stays Anonymous and GET /admin  *)
(* still redirects to /admin/login.                                        *)
C2_LoginFlow ==
    [][ \A c \in Clients :
          /\ ( IsRoute(last', "POST", "/admin/login") /\ last'.req.client = c
               /\ sessions[c] = NoUser /\ last'.req.body = GoodCredentials )
             => ( sessions'[c] = "admin" /\ last'.res.type = "redirect"
                  /\ last'.res.what = "/admin" )
          /\ ( IsRoute(last', "POST", "/admin/login") /\ last'.req.client = c
               /\ sessions[c] = NoUser
               /\ last'.req.body.password # Str("erfan9028@") )
             => ( last'.res.status = 401 /\ sessions'[c] = NoUser )
          /\ ( IsRoute(last', "GET", "/admin") /\ last'.req.client = c )
             => ( /\ sessions[c] = "admin" => Served(last'.res, "dashboard")
                  /\ sessions[c] = NoUser => ToLogin(last'.res) )
          \* between the login and the GET nobody else changes the session
          /\ ( sessions'[c] # sessions[c] ) => last'.req.client = c ]_vars

C2_Witness ==
    /\ IsRoute(last, "GET", "/admin")
    /\ last.req.client = "c1"
    /\ Served(last.res, "dashboard")
    /\ sessions["c2"] = NoUser

(* C3: POST /admin/logout from an Authenticated session destroys the       *)
(* session state; until a successful login on that session, GET /admin on  *)
(* it redirects to /admin/login.                                           *)
C3_LogoutEndsSession ==
    [][ \A c \in Clients :
          /\ ( IsRoute(last', "POST", "/admin/logout") /\ last'.req.client = c
               /\ sessions[c] = "admin" )
             => ( sessions'[c] = NoUser /\ ToLogin(last'.res)
                  /\ last'.ran = "POST /admin/logout" )
          /\ ( sessions[c] = NoUser /\ sessions'[c] # NoUser )
             => ( IsRoute(last', "POST", "/admin/login") /\ last'.req.client = c
                  /\ last'.res.type = "redirect" )
          /\ ( IsRoute(last', "GET", "/admin") /\ last'.req.client = c
               /\ sessions[c] = NoUser )
             => ToLogin(last'.res) ]_vars

C3_Witness ==
    /\ IsRoute(last, "POST", "/admin/logout")
    /\ last.ran = "POST /admin/logout"
    /\ sessions[last.req.client] = NoUser

(* C4: the Visit rows a request adds are decided by its path: a path that  *)
(* begins with neither /admin nor /api adds exactly one row whose path is  *)
(* the request path; a path under /admin or /api adds none.                *)
C4_OneVisitPerPublicRequest ==
    [][ IsRequest(last') =>
          IF \/ StartsWith(last'.req.path, "/admin")
             \/ StartsWith(last'.req.path, "/api")
          THEN visits' = visits
          ELSE /\ Len(visits') = Len(visits) + 1
               /\ SubSeq(visits', 1, Len(visits)) = visits
               /\ visits'[Len(visits')].path = last'.req.path ]_vars

C4_Witness ==
    /\ Len(visits) = 2
    /\ visits[1].path = "/landing.html"
    /\ visits[2].path = "/"
    /\ Len(submissions) = 1
    /\ last.req.path = "/administrator"

(* C5: when the Visit insert fails the request is still handed to the next *)
(* handler and served as it would have been without the failure.           *)
C5_VisitFailureNotPropagated ==
    last.insertThrew => last.res = PublicResponse(last.req.path)


(* C6: for any interleaving of concurrent POST /api/submit requests, each  *)
(* handled request has inserted exactly one row of its own with a distinct *)
(* identifier, the row is in the table when the response is written, and   *)
(* the response's customerNumber and submissionDate are those stored in    *)
(* that row.                                                               *)
C6_SubmitResponsesMatchOwnRows ==
    /\ Len(submissions) = Cardinality(outbox)
    /\ \A o \in outbox :
          /\ Cardinality({i \in 1..Len(submissions) : submissions[i].id = o.rowid}) = 1
          /\ \A i \in 1..Len(submissions) :
                submissions[i].id = o.rowid =>
                  /\ submissions[i].customer_number = o.res.data.customerNumber
                  /\ submissions[i].submission_date = o.res.data.submissionDate
                  /\ submissions[i].name = (IF o.body.name.t = "string"
                                            THEN o.body.name.v ELSE "")
    /\ \A o1, o2 \in outbox : o1.rid # o2.rid => o1.rowid # o2.rowid
    /\ \A o \in outbox : \A r \in inflight : r.rid # o.rid

\* two requests handled in the reverse of the order they were received,
\* with different customer numbers
C6_Witness ==
    \E o1, o2 \in outbox :
        /\ o1.rid = 1 /\ o1.rowid = 2
        /\ o2.rid = 2 /\ o2.rowid = 1
        /\ o1.res.data.customerNumber = "JN000000"
        /\ o2.res.data.customerNumber = "JN999999"
        /\ o1.body # o2.body

\* s1 + ", " + ... + ", " + sn, built from the left
RECURSIVE CommaSpaceJoined(_)
CommaSpaceJoined(a) ==
    IF Len(a) = 0 THEN ""
    ELSE IF Len(a) = 1 THEN a[1]
    ELSE CommaSpaceJoined(SubSeq(a, 1, Len(a) - 1)) \o ", " \o a[Len(a)]

(* C8: the stored services field is the order-preserving join of the       *)
(* selected services with ", "; a single string is stored unchanged; an    *)
(* absent field or an empty list is stored as the empty string.            *)
C8_ServicesStoredAsJoin ==
    \A o \in outbox : \A i \in 1..Len(submissions) :
        submissions[i].id = o.rowid =>
          submissions[i].services =
            CASE o.body.services.t = "array" -> CommaSpaceJoined(o.body.services.v)
              [] o.body.services.t = "string" -> o.body.services.v
              [] o.body.services.t = "undefined" -> ""

C8_Witness ==
    /\ Len(submissions) = 1
    /\ submissions[1].services = "Web, SEO, Web"
    /\ \E o \in outbox : o.body.services = Arr(<<"Web", "SEO", "Web">>)

(* C7 as stated: after an Authenticated POST /admin/editor with content c, *)
(* GET / returns exactly c and GET /admin/editor shows exactly c, until    *)
(* the next editor POST.                                                   *)
C7_RootShowsEditedContent ==
    [][ /\ ( IsRoute(last', "POST", "/admin/editor")
             /\ sessions[last'.req.client] = "admin" )
           => files'["landing.html"] = [exists |-> TRUE, text |-> last'.req.body]
        /\ files' # files => last'.ran = "POST /admin/editor"
        /\ ( IsRoute(last', "GET", "/") /\ files["landing.html"].exists )
           => last'.res.data = files["landing.html"].text
        /\ ( IsRoute(last', "GET", "/admin/editor")
             /\ sessions[last'.req.client] = "admin"
             /\ files["landing.html"].exists )
           => last'.res.data = files["landing.html"].text ]_vars

(* C7 amended: after an Authenticated POST /admin/editor with content c,   *)
(* GET /landing.html returns exactly c and GET /admin/editor shows exactly *)
(* c, until the next editor POST (the last POST wins); GET / serves        *)
(* index.html, which the editor never changes.                             *)
C7_LandingFileShowsEditedContent ==
    [][ /\ ( IsRoute(last', "POST", "/admin/editor")
             /\ sessions[last'.req.client] = "admin" )
           => files'["landing.html"] = [exists |-> TRUE, text |-> last'.req.body]
        /\ files' # files =>
             ( last'.ran = "POST /admin/editor"
               /\ files'["index.html"] = files["index.html"] )
        /\ ( IsRoute(last', "GET", "/landing.html") /\ files["landing.html"].exists )
           => ( last'.res.status = 200
                /\ last'.res.data = files["landing.html"].text )
        /\ ( IsRoute(last', "GET", "/admin/editor")
             /\ sessions[last'.req.client] = "admin"
             /\ files["landing.html"].exists )
           => last'.res.data = files["landing.html"].text
        /\ IsRoute(last', "GET", "/")
           => ( last'.res.what = "index.html"
                /\ last'.res.data = "<html>index</html>" ) ]_vars

\* /landing.html was requested before and after an editor POST, and the
\* second response is the posted content
C7_Witness ==
    /\ IsRoute(last, "GET", "/landing.html")
    /\ last.res.data = "<h1>Hi</h1>"
    /\ files["landing.html"].text = "<h1>Hi</h1>"
    /\ Len(visits) = 2
    /\ visits[1].path = "/landing.html"

(* C9: submissions and visits are append-only: no handler updates or       *)
(* deletes a row, every field of an existing row stays as it is, and each  *)
(* new row's identifier is greater than every identifier in its table.     *)
C9_TablesAppendOnly ==
    [][ /\ Len(submissions') >= Len(submissions)
        /\ SubSeq(submissions', 1, Len(submissions)) = submissions
        /\ \A i \in 1..Len(submissions), j \in (Len(submissions) + 1)..Len(submissions') :
              submissions'[j].id > submissions[i].id
        /\ Len(visits') >= Len(visits)
        /\ SubSeq(visits', 1, Len(visits)) = visits
        /\ \A i \in 1..Len(visits), j \in (Len(visits) + 1)..Len(visits') :
              visits'[j].id > visits[i].id ]_vars

C9_Witness ==
    /\ Len(submissions) = 2
    /\ submissions[2].id > submissions[1].id
    /\ Len(visits) = 2
    /\ visits[2].id > visits[1].id
    /\ IsRoute(last, "POST", "/admin/editor")
    /\ last.ran = "POST /admin/editor"

(* C10: a failed POST /admin/login leaves the session as it was (an        *)
(* Authenticated session stays Authenticated and its next GET /admin is    *)
(* served); only a gated POST /admin/logout or the expiry of the session   *)
(* takes a session from Authenticated to Anonymous.                        *)
C10_FailedLoginKeepsSession ==
    [][ \A c \in Clients :
          /\ ( IsRoute(last', "POST", "/admin/login")
               /\ last'.req.body # GoodCredentials )
             => ( last'.res.status = 401 /\ sessions' = sessions )
          /\ ( sessions[c] = "admin" /\ sessions'[c] # "admin" )
             => \/ ( IsRoute(last', "POST", "/admin/logout")
                     /\ last'.req.client = c
                     /\ last'.ran = "POST /admin/logout" )
                \/ ( last'.req.method = "EXPIRE" /\ last'.req.client = c )
          /\ ( IsRoute(last', "GET", "/admin") /\ last'.req.client = c
               /\ sessions[c] = "admin" )
             => Served(last'.res, "dashboard") ]_vars

C10_Witness ==
    /\ IsRoute(last, "POST", "/admin/login")
    /\ last.res.status = 401
    /\ sessions[last.req.client] = "admin"

=============================================================================
